---- MODULE Spec2Model ----
(***************************************************************************)
(* Model of backend/main.py: the JSONBin-backed schedule and activity log, *)
(* the Gemini/OpenRouter analysis with retry and fallback, the scheduled   *)
(* pipeline run and the background scheduler loop.                         *)
(*                                                                         *)
(* Time is an integer number of milliseconds since midnight of day 0.      *)
(* A timestamp string produced by to_utc_iso is represented by the         *)
(* millisecond value it denotes (a whole number of seconds).               *)
(***************************************************************************)
EXTENDS Integers, Sequences, FiniteSets, TLC

\* ------------------------------------------------------------------ bounds
\* Ticks of the scheduler loop in one behaviour.
MaxTicks == 2
\* Videos on the channel in the last day, when a run is studied on its own.
MaxListed == 3
\* Videos on the channel in the last day, when the scheduler is studied.
MaxListedSched == 1
\* Stand-alone append_activity / get_activity_log calls in one behaviour.
MaxLogCalls == 3
\* Failed activity-log store operations in one behaviour.
MaxLogFaults == 1
\* POST and DELETE /api/schedule requests in one behaviour.
MaxScheduleCalls == 1
\* POST /api/analyze requests in one behaviour.
MaxRequests == 2
\* Process restarts in one behaviour.
MaxRestarts == 1

\* ------------------------------------------------------- program constants
MAX_LOG_ENTRIES == 200
MAX_ATTEMPTS_OffByOne == 3 - 1
MAX_ATTEMPTS == 3
BACKOFF_STEP_S == 10
POLL_S == 30
PACING_S == 5
DISPATCH_DELAY_MS == 600
ANALYZE_ROUTE_DELAY_S == 4

Seconds(s) == s * 1000
Minutes(m) == m * 60 * 1000
Hours(h) == h * 60 * 60 * 1000
DayMs == 24 * 60 * 60 * 1000

\* An absent key of a stored document, for integer-valued fields.
Absent == -1
\* Python None returned by get_next_run_time.
None == -1
\* A stored next_run that datetime.fromisoformat cannot parse.
Malformed == -2

\* ---------------------------------------------------------- Python helpers
\* s[k:] of a Python list: a negative start counts from the end and is
\* clamped at 0, a start beyond the end gives the empty list.
PySliceFrom(s, k) ==
    LET n  == Len(s)
        st == IF k < 0 THEN (IF n + k < 0 THEN 0 ELSE n + k)
                       ELSE (IF k > n THEN n ELSE k)
    IN  SubSeq(s, st + 1, n)

\* The newest k entries of s, oldest first (all of s when it has fewer).
Newest(s, k) ==
    IF k <= 0 THEN << >>
    ELSE IF k >= Len(s) THEN s
    ELSE [i \in 1..k |-> s[Len(s) - k + i]]

Min(a, b) == IF a <= b THEN a ELSE b

\* dt.strftime("%Y-%m-%dT%H:%M:%SZ"): the sub-second part is dropped.
to_utc_iso(t) == t - (t % 1000)

\* datetime.fromisoformat(s.replace("Z","")) of a to_utc_iso string.
fromisoformat(s) == s

VARIABLES
    now,            \* datetime.utcnow(), in ms
    channel,        \* the channel's videos of the last day, in listing order
    ticks,          \* iterations of the scheduler loop so far
    schedDoc,       \* the schedule document held by the store
    logs,           \* the "logs" list of the activity-log document in the store
    logSerial,      \* number of append_activity calls made (names the entries)
    appended,       \* entries whose append reached the store since the last clear
    logFaults,      \* failed log-store operations so far
    logCalls,       \* stand-alone log calls so far
    lastAttempt,    \* message of the latest append_activity call
    lastRead,       \* what the latest get_activity_log returned
    lastLimit,      \* its limit argument (Absent before the first call)
    lastReadOk,     \* whether its store read answered 200
    lastStored,     \* the stored list at that moment
    loopPc,         \* scheduler_loop: "sleep" | "running"
    schedule,       \* scheduler_loop's local `schedule`
    runPc,          \* run_scheduled_job's position
    runNow,         \* its local `now`
    listed,         \* len(all_videos)
    videos,         \* its filtered `videos` (ids in discovery order)
    vi,             \* index of the video being processed (1-based)
    analyses,       \* its `analyses`: <<id, text>> pairs
    valid,          \* its `valid`
    si,             \* index of the item being dispatched (1-based)
    aiPc,           \* analyze_with_ai: "idle" | "TryPrimary" | "TryFallback" | "Done" | "Failed"
    aiCaller,       \* "route" (POST /api/analyze) or "job"
    attempt,        \* analyze_with_gemini's loop variable
    primaryCalls,   \* Gemini requests made in the current call
    fallbackCalls,  \* OpenRouter requests made in the current call
    delays,         \* backoff sleeps taken in the current call, in seconds
    responses,      \* Gemini's answers in the current call
    aiResult,       \* the text returned ("none" while there is none)
    aiRequests,     \* POST /api/analyze requests so far
    scheduleCalls,  \* POST and DELETE /api/schedule requests so far
    trace,          \* what the current run did: <<event, id>> pairs
    summary,        \* the count in the run's "Pipeline complete" entry (Absent if none)
    inFlight,       \* run_scheduled_job invocations that have not returned
    runsStarted,    \* runs the loop has triggered
    postRuns,       \* times the loop reached its post-run save_schedule
    runsForNextRun, \* runs triggered since the stored next_run last changed
    lostSaves,      \* post-run saves since then that did not reach the store
    cancelledInRun, \* DELETE /api/schedule was served during the current run
    binCached,      \* _schedule_bin_id is non-empty
    envBin,         \* JSONBIN_SCHEDULE_BIN is set in the environment
    restarts,       \* process restarts so far
    atRestart,      \* the stored schedule document when the process last restarted
    lastLoad,       \* the loop's latest load_schedule: outcome, result, run triggered
    lastSave,       \* the latest save_schedule of a schedule route that reached the store
    lastPost,       \* the post-run step of the loop's current iteration
    nextRunCall,    \* a get_next_run_time call on its own: inputs and result
    window,         \* the run's from_date and to_date, as day numbers
    pace,           \* times of the run's latest analysis calls and dispatches
    pending         \* an append_activity call between its read and its write

storeVars == <<schedDoc, binCached, envBin>>
logVars   == <<logs, logSerial, appended, logFaults, lastAttempt>>
readVars  == <<lastRead, lastLimit, lastReadOk, lastStored>>
loopVars  == <<loopPc, schedule, ticks>>
runVars   == <<runPc, runNow, listed, videos, vi, analyses, valid, si, trace, summary,
               window, pace>>
aiVars    == <<aiPc, aiCaller, attempt, primaryCalls, fallbackCalls, delays,
               responses, aiResult>>
auxVars   == <<restarts, atRestart, nextRunCall, pending>>
ghostVars == <<inFlight, runsStarted, postRuns, runsForNextRun, lostSaves,
               cancelledInRun, lastLoad, lastSave, lastPost, auxVars>>

vars == <<now, channel, scheduleCalls, storeVars, logVars, readVars, logCalls, loopVars, runVars, aiVars,
          aiRequests, ghostVars>>

\* ------------------------------------------------------------ the store
\* What one HTTP call to the store can do: answer 200, answer another
\* status, or raise (timeout, connection error).
StoreOutcomes == {"ok", "status", "exc"}

\* The outcomes of the read and the write of one read-modify-write.
RWOutcomes == {<<r, w>> : r \in {"ok", "status"}, w \in StoreOutcomes} \cup {<<"exc", "none">>}

Faulty(o) == o[1] # "ok" \/ o[2] # "ok"

\* ---------------------------------------------------------- activity log
Entry(level, msg) == [n |-> logSerial + 1, level |-> level, msg |-> msg]

\* append_activity's effect on the stored list, for the outcomes o of its
\* read and its write. A read that does not answer 200 yields {} and the
\* default {"logs": []}; an exception anywhere is swallowed.
AppendResult(stored, entry, o) ==
    IF o[1] = "exc" THEN stored
    ELSE LET data == IF o[1] = "ok" THEN stored ELSE << >>
             new  == PySliceFrom(Append(data, entry), -MAX_LOG_ENTRIES)
         IN  IF o[2] = "ok" THEN new ELSE stored

\* Whether an exception leaves append_activity: its whole body is inside
\* try/except Exception.
AppendRaisesUncaught(o) == o[1] = "exc" \/ o[2] = "exc"
AppendRaises(o) == FALSE

\* One call append_activity(level, msg) with store outcomes o.
DoAppend(level, msg, o) ==
    /\ Faulty(o) => logFaults < MaxLogFaults
    /\ logFaults' = IF Faulty(o) THEN logFaults + 1 ELSE logFaults
    /\ logs' = AppendResult(logs, Entry(level, msg), o)
    /\ logSerial' = logSerial + 1
    /\ lastAttempt' = msg
    /\ appended' = IF o[1] # "exc" /\ o[2] = "ok"
                   THEN Append(appended, Entry(level, msg))
                   ELSE appended

\* No append_activity call is between its read and its write.
NoAppend == [active |-> FALSE, data |-> << >>]

\* get_activity_log(limit) with store outcome r of its read.
get_activity_log(stored, limit, r) ==
    IF r = "ok" THEN PySliceFrom(stored, -limit) ELSE << >>

\* clear_activity_log's effect, with store outcome w of its write.
ClearResult(stored, w) == IF w = "ok" THEN << >> ELSE stored

\* A call of append_activity from anywhere in the process.
LogAppend ==
    /\ logCalls < MaxLogCalls
    /\ logCalls' = logCalls + 1
    /\ \E o \in RWOutcomes : DoAppend("info", "note", o)
    /\ UNCHANGED <<now, storeVars, readVars, loopVars, runVars, aiVars, aiRequests, channel, scheduleCalls, ghostVars>>

\* GET /api/logs?limit=...
GetLogs ==
    /\ logCalls < MaxLogCalls
    /\ logCalls' = logCalls + 1
    /\ \E limit \in {0, 1, 2, MAX_LOG_ENTRIES - 1, MAX_LOG_ENTRIES, MAX_LOG_ENTRIES + 1},
          r \in StoreOutcomes :
          /\ lastRead' = get_activity_log(logs, limit, r)
          /\ lastLimit' = limit
          /\ lastReadOk' = (r = "ok")
          /\ lastStored' = logs
    /\ UNCHANGED <<now, storeVars, logVars, loopVars, runVars, aiVars, aiRequests, channel, scheduleCalls, ghostVars>>

\* DELETE /api/logs
ClearLogs ==
    /\ logCalls < MaxLogCalls
    /\ logCalls' = logCalls + 1
    /\ \E w \in StoreOutcomes :
          /\ logs' = ClearResult(logs, w)
          /\ appended' = IF w = "ok" THEN << >> ELSE appended
    /\ UNCHANGED <<now, storeVars, logSerial, logFaults, lastAttempt, readVars,
                   loopVars, runVars, aiVars, aiRequests, channel, scheduleCalls, ghostVars>>

\* append_activity in two steps, for when another log operation can run
\* between them: the routes of /api/logs are plain `def` handlers, which
\* run in worker threads while a run on the event loop is inside
\* append_activity. (LogAppend and DoAppend are the two steps with nothing
\* in between.)
\* The first step: the bin lookup and _read_bin, into the local `data`.
AppendBegin ==
    /\ ~pending.active
    /\ logCalls < MaxLogCalls
    /\ logCalls' = logCalls + 1
    /\ lastAttempt' = "note"
    /\ \E r \in StoreOutcomes :
          /\ r # "ok" => logFaults < MaxLogFaults
          /\ logFaults' = IF r # "ok" THEN logFaults + 1 ELSE logFaults
          /\ IF r = "exc"
             THEN /\ pending' = NoAppend
                  /\ logSerial' = logSerial + 1
             ELSE /\ pending' = [active |-> TRUE, data |-> IF r = "ok" THEN logs ELSE << >>]
                  /\ UNCHANGED logSerial
    /\ UNCHANGED <<logs, appended>>
    /\ UNCHANGED <<now, storeVars, readVars, loopVars, runVars, aiVars, aiRequests, channel,
                   scheduleCalls, inFlight, runsStarted, postRuns, runsForNextRun, lostSaves,
                   cancelledInRun, lastLoad, lastSave, lastPost, restarts, atRestart,
                   nextRunCall>>

\* The second step: the entry is appended to `data`, the list is cut to
\* its newest MAX_LOG_ENTRIES and written with _write_bin.
AppendEnd ==
    /\ pending.active
    /\ pending' = NoAppend
    /\ logSerial' = logSerial + 1
    /\ \E w \in StoreOutcomes :
          /\ w # "ok" => logFaults < MaxLogFaults
          /\ logFaults' = IF w # "ok" THEN logFaults + 1 ELSE logFaults
          /\ logs' = IF w = "ok"
                     THEN PySliceFrom(Append(pending.data, Entry("info", "note")),
                                      -MAX_LOG_ENTRIES)
                     ELSE logs
          /\ appended' = IF w = "ok" THEN Append(appended, Entry("info", "note"))
                         ELSE appended
    /\ UNCHANGED <<logCalls, lastAttempt>>
    /\ UNCHANGED <<now, storeVars, readVars, loopVars, runVars, aiVars, aiRequests, channel,
                   scheduleCalls, inFlight, runsStarted, postRuns, runsForNextRun, lostSaves,
                   cancelledInRun, lastLoad, lastSave, lastPost, restarts, atRestart,
                   nextRunCall>>

\* ------------------------------------------------------------ AI analysis
\* What Gemini can answer to one request: 200 with a text (possibly empty),
\* 200 with a body that has no candidates[0].content.parts[0].text, 429,
\* another status, or no answer at all (the HTTP client raises).
PrimaryResponses == {"ok_text", "ok_empty", "parse_error", "rate_limited", "error", "transport"}

\* What OpenRouter can answer: 200 with a text (possibly empty), or a
\* failure (non-200, unparseable body, transport error).
FallbackResponses == {"ok_text", "ok_empty", "error"}

Text(resp) == IF resp = "ok_text" THEN "text" ELSE ""

\* resp.status_code == 429
IsRateLimitedAnyFailure(resp) == resp \in {"rate_limited", "error"}
IsRateLimited(resp) == resp = "rate_limited"

\* A backoff that does not grow with the attempt.
BackoffFlat(a) == BACKOFF_STEP_S

\* wait = 10 * (attempt + 1)
Backoff(a) == BACKOFF_STEP_S * (a + 1)

\* analyze_with_ai's frame is gone once its caller has taken its outcome.
EndAI ==
    /\ aiPc' = "idle"
    /\ aiCaller' = "none"
    /\ attempt' = 0
    /\ primaryCalls' = 0
    /\ fallbackCalls' = 0
    /\ delays' = << >>
    /\ responses' = << >>
    /\ aiResult' = "none"

\* The start of analyze_with_ai(prompt), entered by `who`.
StartAI(who) ==
    /\ aiPc' = "TryPrimary"
    /\ aiCaller' = who
    /\ attempt' = 0
    /\ primaryCalls' = 0
    /\ fallbackCalls' = 0
    /\ delays' = << >>
    /\ responses' = << >>
    /\ aiResult' = "none"

\* One iteration of analyze_with_gemini's `for attempt in range(3)`: the
\* request, and on 429 the backoff sleep that follows it. Leaving the loop,
\* or any exception, takes analyze_with_ai to its except branch.
TryPrimary ==
    /\ aiPc = "TryPrimary"
    /\ \E resp \in PrimaryResponses :
          /\ primaryCalls' = primaryCalls + 1
          /\ responses' = Append(responses, resp)
          /\ IF resp \in {"ok_text", "ok_empty"}
             THEN /\ aiPc' = "Done"
                  /\ aiResult' = Text(resp)
                  /\ UNCHANGED <<attempt, delays, now>>
             ELSE IF IsRateLimited(resp)
             THEN /\ delays' = Append(delays, Backoff(attempt))
                  /\ now' = now + Seconds(Backoff(attempt))
                  /\ attempt' = attempt + 1
                  /\ aiPc' = IF attempt + 1 < MAX_ATTEMPTS THEN "TryPrimary" ELSE "TryFallback"
                  /\ UNCHANGED aiResult
             ELSE /\ aiPc' = "TryFallback"
                  /\ UNCHANGED <<attempt, delays, now, aiResult>>
    /\ UNCHANGED <<aiCaller, fallbackCalls>>
    /\ UNCHANGED <<storeVars, logVars, readVars, logCalls, loopVars, runVars,
                   aiRequests, channel, scheduleCalls, ghostVars>>

\* analyze_with_ai's except branch: one call of analyze_with_openrouter,
\* whose exception leaves analyze_with_ai.
TryFallback ==
    /\ aiPc = "TryFallback"
    /\ \E resp \in FallbackResponses :
          /\ fallbackCalls' = fallbackCalls + 1
          /\ IF resp = "error"
             THEN aiPc' = "Failed" /\ UNCHANGED aiResult
             ELSE aiPc' = "Done" /\ aiResult' = Text(resp)
    /\ UNCHANGED <<aiCaller, attempt, primaryCalls, delays, responses, now>>
    /\ UNCHANGED <<storeVars, logVars, readVars, logCalls, loopVars, runVars,
                   aiRequests, channel, scheduleCalls, ghostVars>>

\* POST /api/analyze with a non-empty prompt: the call of analyze_with_ai.
AnalyzeRequest ==
    /\ aiPc \in {"idle", "Done", "Failed"}
    /\ aiCaller \in {"none", "served"}
    /\ aiRequests < MaxRequests
    /\ aiRequests' = aiRequests + 1
    /\ StartAI("route")
    /\ UNCHANGED <<now, channel, scheduleCalls, storeVars, logVars, readVars, logCalls, loopVars, runVars, ghostVars>>

\* POST /api/analyze answering: after a result it sleeps 4 s and returns it,
\* after a failure it answers 500.
AnalyzeRespond ==
    /\ aiCaller = "route"
    /\ aiPc \in {"Done", "Failed"}
    /\ aiCaller' = "served"
    /\ now' = IF aiPc = "Done" THEN now + Seconds(ANALYZE_ROUTE_DELAY_S) ELSE now
    /\ UNCHANGED <<aiPc, attempt, primaryCalls, fallbackCalls, delays, responses, aiResult>>
    /\ UNCHANGED <<storeVars, logVars, readVars, logCalls, loopVars, runVars,
                   aiRequests, channel, scheduleCalls, ghostVars>>

\* ------------------------------------------------------------ the schedule
\* {"active": False}: the document DELETE /api/schedule writes, the one a new
\* bin is created with, and load_schedule's default.
InactiveDoc ==
    [active |-> FALSE, mode |-> "absent", email |-> "absent", intervalValue |-> Absent,
     intervalUnit |-> "absent", dailyTime |-> Absent, run_count |-> Absent,
     created_at |-> Absent, last_run |-> Absent, next_run |-> Absent]

\* schedule.get("dailyTime", "08:00") split at ":" into hour and minute,
\* as minutes after midnight. The stored string is held as that number.
DailyMinutes(sch) == IF sch.dailyTime = Absent THEN 8 * 60 ELSE sch.dailyTime

\* get_next_run_time with `<` for `<=` in the daily roll-over test.
get_next_run_time_StrictRollover(sch, t) ==
    IF sch.mode = "interval"
    THEN LET value == IF sch.intervalValue = Absent THEN 1 ELSE sch.intervalValue
         IN  IF sch.intervalUnit = "minute" THEN t + Minutes(value) ELSE t + Hours(value)
    ELSE IF sch.mode = "daily"
    THEN LET next_run == (t - (t % DayMs)) + Minutes(DailyMinutes(sch))
         IN  IF next_run < t THEN next_run + DayMs ELSE next_run
    ELSE None

\* get_next_run_time that ignores intervalUnit and always adds hours.
get_next_run_time_HoursOnly(sch, t) ==
    IF sch.mode = "interval"
    THEN LET value == IF sch.intervalValue = Absent THEN 1 ELSE sch.intervalValue
         IN  t + Hours(value)
    ELSE IF sch.mode = "daily"
    THEN LET next_run == (t - (t % DayMs)) + Minutes(DailyMinutes(sch))
         IN  IF next_run <= t THEN next_run + DayMs ELSE next_run
    ELSE None

\* get_next_run_time(schedule), called when datetime.utcnow() is t. (Its two
\* clock reads in daily mode are taken at the same instant.)
get_next_run_time(sch, t) ==
    IF sch.mode = "interval"
    THEN LET value == IF sch.intervalValue = Absent THEN 1 ELSE sch.intervalValue
         IN  IF sch.intervalUnit = "minute" THEN t + Minutes(value) ELSE t + Hours(value)
    ELSE IF sch.mode = "daily"
    THEN LET next_run == (t - (t % DayMs)) + Minutes(DailyMinutes(sch))
         IN  IF next_run <= t THEN next_run + DayMs ELSE next_run
    ELSE None

\* A load_schedule that answers the document whatever the read's outcome.
load_schedule_Unguarded(doc, r) == doc

\* load_schedule(), with store outcome r of its read. (_read_bin answers {}
\* for a non-200 status as for an empty record: "status" stands for both.)
load_schedule(doc, r) == IF r = "ok" THEN doc ELSE InactiveDoc

\* save_schedule(data)'s effect on the stored document, with outcome w of
\* its write: _write_bin's result is ignored and exceptions are swallowed.
SaveResult(doc, data, w) == IF w = "ok" THEN data ELSE doc

\* The outcomes of _create_bin's POST, when _get_schedule_bin has to make it.
BinOutcomes == IF binCached \/ envBin THEN {"ok"} ELSE StoreOutcomes

\* _get_schedule_bin(): the cached id, else the id in JSONBIN_SCHEDULE_BIN,
\* else the id of a bin created now with {"active": False} (outcome c of
\* the POST). `id` tells whether a non-empty id is returned, `cached`
\* whether _schedule_bin_id is non-empty afterwards, `doc` is the document
\* of this deployment's schedule bin afterwards: a bin created now replaces
\* the one used before, which no id names any more.
_get_schedule_bin(c) ==
    IF binCached \/ envBin
    THEN [id |-> TRUE, raised |-> FALSE, cached |-> TRUE, doc |-> schedDoc]
    ELSE IF c = "ok"
    THEN [id |-> TRUE, raised |-> FALSE, cached |-> TRUE, doc |-> InactiveDoc]
    ELSE [id |-> FALSE, raised |-> c = "exc", cached |-> FALSE, doc |-> schedDoc]

\* load_schedule() as the process runs it: bin lookup, then the read.
Load(c, r) ==
    LET b == _get_schedule_bin(c)
    IN  IF b.id THEN load_schedule(b.doc, r) ELSE InactiveDoc

\* The stored document after save_schedule(data) as the process runs it.
Save(c, data, w) ==
    LET b == _get_schedule_bin(c)
    IN  IF b.id THEN SaveResult(b.doc, data, w) ELSE b.doc

\* Whether that save_schedule call's write reached the store.
Reached(c, w) == _get_schedule_bin(c).id /\ w = "ok"

\* No load_schedule by the loop, no save by a route, no stand-alone
\* get_next_run_time call, no post-run step made yet.
NoLoad == [r |-> "none", bin |-> FALSE, at |-> Absent, loaded |-> InactiveDoc,
           triggered |-> FALSE]
NoSave == [by |-> "none", before |-> InactiveDoc, data |-> InactiveDoc]
NoCall == [called |-> FALSE, sch |-> InactiveDoc, t |-> 0, result |-> None]
NoPost == [done |-> FALSE, called |-> FALSE, loaded |-> InactiveDoc, before |-> InactiveDoc,
           data |-> InactiveDoc, after |-> InactiveDoc, reached |-> FALSE,
           started |-> Absent, ended |-> Absent, aborted |-> FALSE]

\* ------------------------------------------------------ run_scheduled_job
\* A video of the channel: whether its title holds "earnings call", and
\* whether the transcript provider has a transcript of it.
VideoKinds == {[earnings |-> e, transcript |-> t] : e, t \in BOOLEAN} \
                 {[earnings |-> FALSE, transcript |-> TRUE]}

\* The channels of at most k videos.
Channels(k) == UNION {[1..n -> VideoKinds] : n \in 0..k}

\* [v for v in all_videos if "earnings call" in v.get("title","").lower()],
\* a video being named by its place in the listing.
FilterEarnings(all) == SelectSeq([i \in 1..Len(all) |-> i], LAMBDA i : all[i].earnings)

\* [a for a in analyses if a.get("analysis")]
ValidOf(as) == SelectSeq(as, LAMBDA a : a[2] # "")

Ids(seq) == {seq[i] : i \in 1..Len(seq)}

\* Where run_scheduled_job continues after an append_activity inside its try.
InTry(o, pc) == IF AppendRaises(o) THEN "except" ELSE pc

\* Where it continues after an append_activity outside its try, or in its
\* except handler: an exception there leaves run_scheduled_job.
OutsideTry(o, pc) == IF AppendRaises(o) THEN "raised" ELSE pc

Left(pc) == pc \in {"returned", "raised"}

\* The run went through its `except Exception` handler.
Aborted == \E k \in 1..Len(trace) : trace[k][1] \in {"list_failed", "ai_failed", "send_failed"}

restRun == <<storeVars, readVars, logCalls, loopVars, aiRequests, channel, scheduleCalls,
             runsStarted, postRuns, runsForNextRun, lostSaves, cancelledInRun,
             lastLoad, lastSave, lastPost, auxVars>>

\* dt.strftime("%Y-%m-%d"): the day the instant falls on.
DateOf(t) == t \div DayMs

\* published_after = f"{from_date}T00:00:00Z"
published_after(from_date) == from_date * DayMs

\* published_before = f"{to_date}T23:59:59Z"
published_before(to_date) == to_date * DayMs + Hours(23) + Minutes(59) + Seconds(59)

\* No listing asked for yet; no analysis call and no dispatch made yet.
NoWindow == [from_date |-> Absent, to_date |-> Absent]
NoPace == [aiStart |-> Absent, aiEnd |-> Absent, prevAiEnd |-> Absent,
           sendAt |-> Absent, prevSendAt |-> Absent]

RunStart ==
    /\ runPc = "start"
    /\ runNow' = now
    /\ window' = [from_date |-> DateOf(now - DayMs), to_date |-> DateOf(now)]
    /\ UNCHANGED pace
    /\ \E o \in RWOutcomes :
          /\ DoAppend("info", "run_started", o)
          /\ runPc' = OutsideTry(o, "list")
    /\ inFlight' = IF Left(runPc') THEN inFlight - 1 ELSE inFlight
    /\ UNCHANGED <<now, listed, videos, vi, analyses, valid, si, trace, summary>>
    /\ UNCHANGED <<aiVars, restRun>>

\* fetch_videos_in_range raises (no API key, an "error" answer, transport).
RunListFails ==
    /\ UNCHANGED <<window, pace>>
    /\ runPc = "list"
    /\ runPc' = "except"
    /\ trace' = Append(trace, <<"list_failed", 0>>)
    /\ UNCHANGED <<now, runNow, listed, videos, vi, analyses, valid, si, summary>>
    /\ UNCHANGED <<logVars, aiVars, inFlight, restRun>>

\* The listing holds no earnings call: the run logs that and returns.
RunListEmpty ==
    /\ UNCHANGED <<window, pace>>
    /\ runPc = "list"
    /\ FilterEarnings(channel) = << >>
    /\ \E o \in RWOutcomes :
          /\ listed' = Len(channel)
          /\ videos' = << >>
          /\ DoAppend("err", "no_videos", o)
          /\ runPc' = InTry(o, "returned")
    /\ inFlight' = IF Left(runPc') THEN inFlight - 1 ELSE inFlight
    /\ UNCHANGED <<now, runNow, vi, analyses, valid, si, trace, summary>>
    /\ UNCHANGED <<aiVars, restRun>>

RunListFound ==
    /\ UNCHANGED <<window, pace>>
    /\ runPc = "list"
    /\ FilterEarnings(channel) # << >>
    /\ \E o \in RWOutcomes :
          /\ listed' = Len(channel)
          /\ videos' = FilterEarnings(channel)
          /\ DoAppend("ok", "found", o)
          /\ runPc' = InTry(o, "fetch")
    /\ vi' = 1
    /\ analyses' = << >>
    /\ UNCHANGED <<now, runNow, valid, si, trace, summary>>
    /\ UNCHANGED <<aiVars, inFlight, restRun>>

\* The head of `for i, v in enumerate(videos, 1)` and its first log entry.
RunFetch ==
    /\ UNCHANGED <<window, pace>>
    /\ runPc = "fetch"
    /\ vi <= Len(videos)
    /\ \E o \in RWOutcomes :
          /\ DoAppend("info", "fetching", o)
          /\ runPc' = InTry(o, "transcript")
    /\ UNCHANGED <<now, runNow, listed, videos, vi, analyses, valid, si, trace, summary>>
    /\ UNCHANGED <<aiVars, inFlight, restRun>>

\* fetch_transcript returns "": the item is skipped (`continue`).
RunTranscriptEmptyBreak ==
    /\ UNCHANGED <<window, pace>>
    /\ runPc = "transcript"
    /\ ~channel[videos[vi]].transcript
    /\ \E o \in RWOutcomes :
          /\ DoAppend("err", "no_transcript", o)
          /\ runPc' = InTry(o, "fetch")
    /\ trace' = trace \o << <<"fetch", videos[vi]>>, <<"empty", videos[vi]>> >>
    /\ vi' = Len(videos) + 1
    /\ UNCHANGED <<now, runNow, listed, videos, analyses, valid, si, summary>>
    /\ UNCHANGED <<aiVars, inFlight, restRun>>

RunTranscriptEmpty ==
    /\ UNCHANGED <<window, pace>>
    /\ runPc = "transcript"
    /\ ~channel[videos[vi]].transcript
    /\ \E o \in RWOutcomes :
          /\ DoAppend("err", "no_transcript", o)
          /\ runPc' = InTry(o, "fetch")
    /\ trace' = trace \o << <<"fetch", videos[vi]>>, <<"empty", videos[vi]>> >>
    /\ vi' = vi + 1
    /\ UNCHANGED <<now, runNow, listed, videos, analyses, valid, si, summary>>
    /\ UNCHANGED <<aiVars, inFlight, restRun>>

\* fetch_transcript returns a text: the run logs it and calls analyze_with_ai.
RunTranscriptOk ==
    /\ pace' = [pace EXCEPT !.aiStart = now, !.prevAiEnd = pace.aiEnd]
    /\ UNCHANGED window
    /\ runPc = "transcript"
    /\ channel[videos[vi]].transcript
    /\ \E o \in RWOutcomes :
          /\ DoAppend("ai", "got_transcript", o)
          /\ runPc' = InTry(o, "ai")
    /\ trace' = trace \o << <<"fetch", videos[vi]>>, <<"analyze", videos[vi]>> >>
    /\ StartAI("job")
    /\ UNCHANGED <<now, runNow, listed, videos, vi, analyses, valid, si, summary>>
    /\ UNCHANGED <<inFlight, restRun>>

\* analyze_with_ai returned: the analysis is kept, logged, and the run
\* sleeps 5 s before the next item.
\* RunAnalyzed without the pacing sleep.
RunAnalyzedNoSleep ==
    /\ runPc = "ai"
    /\ aiCaller = "job"
    /\ aiPc = "Done"
    /\ pace' = [pace EXCEPT !.aiEnd = now]
    /\ analyses' = Append(analyses, <<videos[vi], aiResult>>)
    /\ \E o \in RWOutcomes :
          /\ DoAppend("ok", "analysis_complete", o)
          /\ runPc' = InTry(o, "fetch")
    /\ vi' = vi + 1
    /\ trace' = Append(trace, <<"analyzed", videos[vi]>>)
    /\ EndAI
    /\ UNCHANGED <<now, runNow, listed, videos, valid, si, summary, window>>
    /\ UNCHANGED <<inFlight, restRun>>

RunAnalyzed ==
    /\ pace' = [pace EXCEPT !.aiEnd = now]
    /\ UNCHANGED window
    /\ runPc = "ai"
    /\ aiCaller = "job"
    /\ aiPc = "Done"
    /\ analyses' = Append(analyses, <<videos[vi], aiResult>>)
    /\ \E o \in RWOutcomes :
          /\ DoAppend("ok", "analysis_complete", o)
          /\ runPc' = InTry(o, "fetch")
    /\ now' = now + Seconds(PACING_S)
    /\ vi' = vi + 1
    /\ trace' = Append(trace, <<"analyzed", videos[vi]>>)
    /\ EndAI
    /\ UNCHANGED <<runNow, listed, videos, valid, si, summary>>
    /\ UNCHANGED <<inFlight, restRun>>

\* analyze_with_ai raised: the exception reaches the run's except clause.
RunAiFailed ==
    /\ UNCHANGED <<window, pace>>
    /\ runPc = "ai"
    /\ aiCaller = "job"
    /\ aiPc = "Failed"
    /\ runPc' = "except"
    /\ trace' = Append(trace, <<"ai_failed", videos[vi]>>)
    /\ EndAI
    /\ UNCHANGED <<now, runNow, listed, videos, vi, analyses, valid, si, summary>>
    /\ UNCHANGED <<logVars, inFlight, restRun>>

\* After the loop: valid is computed and the dispatch is announced.
RunSending ==
    /\ UNCHANGED <<window, pace>>
    /\ runPc = "fetch"
    /\ vi > Len(videos)
    /\ valid' = ValidOf(analyses)
    /\ \E o \in RWOutcomes :
          /\ DoAppend("ai", "sending", o)
          /\ runPc' = InTry(o, "dispatch")
    /\ si' = 1
    /\ UNCHANGED <<now, runNow, listed, videos, vi, analyses, trace, summary>>
    /\ UNCHANGED <<aiVars, inFlight, restRun>>

\* send_single_email succeeds: logged, then a 0.6 s sleep.
RunSendOk ==
    /\ pace' = [pace EXCEPT !.sendAt = now, !.prevSendAt = pace.sendAt]
    /\ UNCHANGED window
    /\ runPc = "dispatch"
    /\ si <= Len(valid)
    /\ \E o \in RWOutcomes :
          /\ DoAppend("ok", "email_sent", o)
          /\ runPc' = InTry(o, "dispatch")
    /\ trace' = Append(trace, <<"sent", valid[si][1]>>)
    /\ now' = now + DISPATCH_DELAY_MS
    /\ si' = si + 1
    /\ UNCHANGED <<runNow, listed, videos, vi, analyses, valid, summary>>
    /\ UNCHANGED <<aiVars, inFlight, restRun>>

\* send_single_email raises (no API key, a status other than 200/201,
\* transport): the exception reaches the run's except clause.
RunSendFails ==
    /\ UNCHANGED <<window, pace>>
    /\ runPc = "dispatch"
    /\ si <= Len(valid)
    /\ runPc' = "except"
    /\ trace' = Append(trace, <<"send_failed", valid[si][1]>>)
    /\ UNCHANGED <<now, runNow, listed, videos, vi, analyses, valid, si, summary>>
    /\ UNCHANGED <<logVars, aiVars, inFlight, restRun>>

RunComplete ==
    /\ UNCHANGED <<window, pace>>
    /\ runPc = "dispatch"
    /\ si > Len(valid)
    /\ \E o \in RWOutcomes :
          /\ DoAppend("ok", "pipeline_complete", o)
          /\ runPc' = InTry(o, "returned")
    /\ summary' = Len(valid)
    /\ inFlight' = IF Left(runPc') THEN inFlight - 1 ELSE inFlight
    /\ UNCHANGED <<now, runNow, listed, videos, vi, analyses, valid, si, trace>>
    /\ UNCHANGED <<aiVars, restRun>>

\* An `except` handler that lets the exception leave run_scheduled_job.
RunExceptReraises ==
    /\ UNCHANGED <<window, pace>>
    /\ runPc = "except"
    /\ runPc' = "raised"
    /\ inFlight' = inFlight - 1
    /\ UNCHANGED <<now, runNow, listed, videos, vi, analyses, valid, si, trace, summary>>
    /\ UNCHANGED <<logVars, aiVars, restRun>>

\* except Exception as e: the error is logged and the run returns.
RunExcept ==
    /\ UNCHANGED <<window, pace>>
    /\ runPc = "except"
    /\ \E o \in RWOutcomes :
          /\ DoAppend("err", "job_error", o)
          /\ runPc' = OutsideTry(o, "returned")
    /\ inFlight' = IF Left(runPc') THEN inFlight - 1 ELSE inFlight
    /\ UNCHANGED <<now, runNow, listed, videos, vi, analyses, valid, si, trace, summary>>
    /\ UNCHANGED <<aiVars, restRun>>

\* -------------------------------------------------------- scheduler_loop
\* Time that passes in an iteration beyond the 30 s sleep, in ms.
Jitter == {0, 400}

\* The loop's due check on the loaded schedule at time t. (fromisoformat
\* raises on a malformed next_run: the iteration ends in `except Exception`.)
Due(sch, t) ==
    /\ sch.active
    /\ sch.next_run # Absent
    /\ sch.next_run # Malformed
    /\ t >= fromisoformat(sch.next_run)

\* scheduler_loop awaits run_scheduled_job: it is suspended until the run
\* returns. (Not awaiting it would leave the loop polling.)
AfterTriggerDetached == "sleep"
AfterTrigger == "running"

\* Where the loop is after the post-run step: the step is inside the
\* `try` of `while True`, so an exception in it (saved is false) ends the
\* iteration and not the loop. (Outside the `try`, it would end the loop.)
AfterIterationUncaught(saved) == IF saved THEN "sleep" ELSE "ended"
AfterIteration(saved) == "sleep"

\* Ghost bookkeeping for a write that makes the stored document doc2.
NextRunMoved(doc2) == doc2.next_run # schedDoc.next_run

\* One iteration of `while True` up to the call of run_scheduled_job: the
\* sleep, load_schedule, the active/next_run/due checks.
Tick ==
    /\ loopPc = "sleep"
    /\ ticks < MaxTicks
    /\ ticks' = ticks + 1
    /\ \E j \in Jitter, c \in BinOutcomes, r \in StoreOutcomes :
          LET t      == now + Seconds(POLL_S) + j
              b      == _get_schedule_bin(c)
              loaded == Load(c, r)
          IN  /\ now' = t
              /\ schedDoc' = b.doc
              /\ binCached' = b.cached
              /\ lastLoad' = [r |-> IF b.id THEN r ELSE c, bin |-> b.id, at |-> t,
                              loaded |-> loaded, triggered |-> Due(loaded, t)]
              /\ lastPost' = NoPost
              /\ IF Due(loaded, t)
                 THEN /\ schedule' = loaded
                      /\ loopPc' = AfterTrigger
                      /\ runPc' = "start"
                      /\ runNow' = t
                      /\ listed' = 0
                      /\ videos' = << >>
                      /\ vi' = 0
                      /\ analyses' = << >>
                      /\ valid' = << >>
                      /\ si' = 0
                      /\ trace' = << >>
                      /\ summary' = Absent
                      /\ window' = NoWindow
                      /\ pace' = NoPace
                      /\ inFlight' = inFlight + 1
                      /\ runsStarted' = runsStarted + 1
                      /\ runsForNextRun' = runsForNextRun + 1
                      /\ cancelledInRun' = FALSE
                 ELSE UNCHANGED <<schedule, loopPc, runVars, inFlight, runsStarted,
                                  runsForNextRun, cancelledInRun>>
    /\ UNCHANGED <<envBin, logVars, readVars, logCalls, aiVars, aiRequests, channel, scheduleCalls,
                   postRuns, lostSaves, lastSave, auxVars>>

\* The schedule the loop saves after a run that finished at time t.
Rescheduled(sch, t) ==
    [sch EXCEPT !.next_run  = to_utc_iso(get_next_run_time(sch, t)),
                !.run_count = (IF sch.run_count = Absent THEN 0 ELSE sch.run_count) + 1,
                !.last_run  = to_utc_iso(t)]

\* The rest of the iteration once run_scheduled_job is over: next_run is
\* recomputed from the schedule loaded before the run and the whole
\* document is saved. to_utc_iso(None) raises, and so does an exception
\* that left the run: `except Exception` ends the iteration without a save.
PostRun ==
    /\ loopPc = "running"
    /\ Left(runPc)
    /\ \E c \in BinOutcomes, w \in StoreOutcomes :
          LET saves == runPc = "returned" /\ get_next_run_time(schedule, now) # None
              doc2  == IF saves THEN Save(c, Rescheduled(schedule, now), w)
                       ELSE schedDoc
          IN  /\ schedDoc' = doc2
              /\ binCached' = IF saves THEN _get_schedule_bin(c).cached ELSE binCached
              /\ lastPost' = [done |-> TRUE, called |-> saves, loaded |-> schedule,
                              before |-> schedDoc,
                              data |-> IF saves THEN Rescheduled(schedule, now) ELSE InactiveDoc,
                              after |-> doc2, reached |-> saves /\ Reached(c, w),
                              started |-> runNow, ended |-> now, aborted |-> Aborted]
              /\ runsForNextRun' = IF NextRunMoved(doc2) THEN 0 ELSE runsForNextRun
              /\ lostSaves' = IF NextRunMoved(doc2) THEN 0 ELSE lostSaves + 1
    /\ postRuns' = postRuns + 1
    /\ loopPc' = AfterIteration(runPc = "returned" /\ get_next_run_time(schedule, now) # None)
    /\ schedule' = InactiveDoc
    /\ runPc' = "idle"
    /\ runNow' = 0
    /\ listed' = 0
    /\ videos' = << >>
    /\ vi' = 0
    /\ analyses' = << >>
    /\ valid' = << >>
    /\ si' = 0
    /\ trace' = << >>
    /\ summary' = Absent
    /\ window' = NoWindow
    /\ pace' = NoPace
    /\ UNCHANGED <<now, ticks, envBin, logVars, readVars, logCalls, aiVars, aiRequests, channel,
                   scheduleCalls, inFlight, runsStarted, cancelledInRun, lastLoad, lastSave,
                   auxVars>>

\* ------------------------------------------------------- schedule routes
\* The bodies POST /api/schedule is called with.
ScheduleRequests ==
    { [mode |-> "interval", intervalValue |-> 1, intervalUnit |-> "minute", dailyTime |-> 8 * 60],
      [mode |-> "daily", intervalValue |-> 1, intervalUnit |-> "hour", dailyTime |-> 8 * 60] }

\* A POST /api/schedule that saves the schedule without its next_run.
NewScheduleNoNextRun(b, t) ==
    [active |-> TRUE, mode |-> b.mode, email |-> "user",
     intervalValue |-> b.intervalValue, intervalUnit |-> b.intervalUnit,
     dailyTime |-> b.dailyTime, run_count |-> 0,
     created_at |-> to_utc_iso(t), last_run |-> Absent, next_run |-> Absent]

\* The document POST /api/schedule builds from body b at time t.
NewSchedule(b, t) ==
    LET sch == [active |-> TRUE, mode |-> b.mode, email |-> "user",
                intervalValue |-> b.intervalValue, intervalUnit |-> b.intervalUnit,
                dailyTime |-> b.dailyTime, run_count |-> 0,
                created_at |-> to_utc_iso(t), last_run |-> Absent, next_run |-> Absent]
    IN  [sch EXCEPT !.next_run = to_utc_iso(get_next_run_time(sch, t))]

\* POST /api/schedule
SetSchedule ==
    /\ scheduleCalls < MaxScheduleCalls
    /\ scheduleCalls' = scheduleCalls + 1
    /\ \E b \in ScheduleRequests, c \in BinOutcomes, w \in StoreOutcomes :
          LET doc2 == Save(c, NewSchedule(b, now), w)
          IN  /\ schedDoc' = doc2
              /\ binCached' = _get_schedule_bin(c).cached
              /\ lastSave' = IF Reached(c, w)
                             THEN [by |-> "set", before |-> schedDoc,
                                   data |-> NewSchedule(b, now)]
                             ELSE lastSave
              /\ runsForNextRun' = IF NextRunMoved(doc2) THEN 0 ELSE runsForNextRun
              /\ lostSaves' = IF NextRunMoved(doc2) THEN 0 ELSE lostSaves
              /\ cancelledInRun' = IF Reached(c, w) THEN FALSE ELSE cancelledInRun
    /\ UNCHANGED <<now, envBin, logVars, readVars, logCalls, loopVars, runVars, aiVars,
                   aiRequests, channel, inFlight, runsStarted, postRuns, lastLoad, lastPost,
                   auxVars>>

\* DELETE /api/schedule
DeleteSchedule ==
    /\ scheduleCalls < MaxScheduleCalls
    /\ scheduleCalls' = scheduleCalls + 1
    /\ \E c \in BinOutcomes, w \in StoreOutcomes :
          LET doc2 == Save(c, InactiveDoc, w)
          IN  /\ schedDoc' = doc2
              /\ binCached' = _get_schedule_bin(c).cached
              /\ lastSave' = IF Reached(c, w)
                             THEN [by |-> "delete", before |-> schedDoc, data |-> InactiveDoc]
                             ELSE lastSave
              /\ runsForNextRun' = IF NextRunMoved(doc2) THEN 0 ELSE runsForNextRun
              /\ lostSaves' = IF NextRunMoved(doc2) THEN 0 ELSE lostSaves
              /\ cancelledInRun' = (cancelledInRun \/ (Reached(c, w) /\ inFlight > 0))
    /\ UNCHANGED <<now, envBin, logVars, readVars, logCalls, loopVars, runVars, aiVars,
                   aiRequests, channel, inFlight, runsStarted, postRuns, lastLoad, lastPost,
                   auxVars>>

\* ---------------------------------------------------------- specifications
\* The process starts at 07:58:30.3 of day 0.
StartTime == Hours(7) + Minutes(58) + Seconds(30) + 300

\* A schedule saved by an earlier POST /api/schedule whose next_run has come.
DueDoc ==
    [active |-> TRUE, mode |-> "interval", email |-> "user", intervalValue |-> 1,
     intervalUnit |-> "minute", dailyTime |-> 8 * 60, run_count |-> 0,
     created_at |-> to_utc_iso(StartTime - Minutes(1)), last_run |-> Absent,
     next_run |-> to_utc_iso(StartTime)]

InitCommon ==
    /\ now = StartTime
    /\ ticks = 0
    /\ logSerial = Len(logs)
    /\ appended = logs
    /\ logFaults = 0
    /\ logCalls = 0
    /\ lastAttempt = "none"
    /\ lastRead = << >>
    /\ lastLimit = Absent
    /\ lastReadOk = FALSE
    /\ lastStored = << >>
    /\ loopPc = "sleep"
    /\ schedule = InactiveDoc
    /\ runPc = "idle"
    /\ runNow = 0
    /\ listed = 0
    /\ videos = << >>
    /\ vi = 0
    /\ analyses = << >>
    /\ valid = << >>
    /\ si = 0
    /\ aiPc = "idle"
    /\ aiCaller = "none"
    /\ attempt = 0
    /\ primaryCalls = 0
    /\ fallbackCalls = 0
    /\ delays = << >>
    /\ responses = << >>
    /\ aiResult = "none"
    /\ aiRequests = 0
    /\ scheduleCalls = 0
    /\ trace = << >>
    /\ summary = Absent
    /\ window = NoWindow
    /\ pace = NoPace
    /\ pending = NoAppend
    /\ inFlight = 0
    /\ runsStarted = 0
    /\ postRuns = 0
    /\ runsForNextRun = 0
    /\ lostSaves = 0
    /\ cancelledInRun = FALSE
    /\ restarts = 0
    /\ atRestart = InactiveDoc
    /\ lastLoad = NoLoad
    /\ lastSave = NoSave
    /\ lastPost = NoPost

\* A process that has just started, with JSONBIN_SCHEDULE_BIN configured.
InitStore ==
    /\ binCached = FALSE
    /\ envBin = TRUE
    /\ nextRunCall = NoCall

\* A stored log of k entries, appended by k earlier calls.
StoredLog(k) == [i \in 1..k |-> [n |-> i, level |-> "info", msg |-> "note"]]

\* The scheduler: the loop, the runs it triggers and the schedule routes.
Init ==
    /\ schedDoc \in {InactiveDoc, DueDoc}
    /\ channel \in Channels(MaxListedSched)
    /\ logs = << >>
    /\ InitStore
    /\ InitCommon

RunStep ==
    \/ RunStart \/ RunListFails \/ RunListEmpty \/ RunListFound \/ RunFetch
    \/ RunTranscriptEmpty \/ RunTranscriptOk \/ RunAnalyzed \/ RunAiFailed
    \/ RunSending \/ RunSendOk \/ RunSendFails \/ RunComplete \/ RunExcept

Next ==
    \/ Tick \/ PostRun \/ SetSchedule \/ DeleteSchedule
    \/ RunStep \/ TryPrimary \/ TryFallback

Spec == Init /\ [][Next]_vars

\* The activity log on its own: appends, reads and clears of a log that is
\* empty, nearly full or full.
InitLog ==
    /\ schedDoc = InactiveDoc
    /\ channel = << >>
    /\ logs \in {StoredLog(k) : k \in {0, MAX_LOG_ENTRIES - 1, MAX_LOG_ENTRIES}}
    /\ InitStore
    /\ InitCommon

NextLog == LogAppend \/ GetLogs \/ ClearLogs

SpecLog == InitLog /\ [][NextLog]_vars

\* The activity log with an append whose two steps other log operations
\* can separate.
NextLogRace == AppendBegin \/ AppendEnd \/ GetLogs \/ ClearLogs

SpecLogRace == InitLog /\ [][NextLogRace]_vars

\* analyze_with_ai on its own, called by POST /api/analyze.
InitAI ==
    /\ schedDoc = InactiveDoc
    /\ channel = << >>
    /\ logs = << >>
    /\ InitStore
    /\ InitCommon

NextAI == AnalyzeRequest \/ TryPrimary \/ TryFallback \/ AnalyzeRespond

SpecAI == InitAI /\ [][NextAI]_vars

\* One run of run_scheduled_job on its own, from the moment the loop's
\* first tick has found DueDoc due and called it.
InitRun ==
    /\ schedDoc = DueDoc
    /\ channel \in Channels(MaxListed)
    /\ now = StartTime + Seconds(POLL_S)
    /\ ticks = 1
    /\ logs = << >>
    /\ logSerial = 0
    /\ appended = << >>
    /\ logFaults = 0
    /\ logCalls = 0
    /\ lastAttempt = "none"
    /\ lastRead = << >>
    /\ lastLimit = Absent
    /\ lastReadOk = FALSE
    /\ lastStored = << >>
    /\ loopPc = "running"
    /\ schedule = DueDoc
    /\ runPc = "start"
    /\ runNow = now
    /\ listed = 0
    /\ videos = << >>
    /\ vi = 0
    /\ analyses = << >>
    /\ valid = << >>
    /\ si = 0
    /\ aiPc = "idle"
    /\ aiCaller = "none"
    /\ attempt = 0
    /\ primaryCalls = 0
    /\ fallbackCalls = 0
    /\ delays = << >>
    /\ responses = << >>
    /\ aiResult = "none"
    /\ aiRequests = 0
    /\ scheduleCalls = 0
    /\ trace = << >>
    /\ summary = Absent
    /\ window = NoWindow
    /\ pace = NoPace
    /\ pending = NoAppend
    /\ inFlight = 1
    /\ runsStarted = 1
    /\ postRuns = 0
    /\ runsForNextRun = 1
    /\ lostSaves = 0
    /\ binCached = TRUE
    /\ envBin = TRUE
    /\ nextRunCall = NoCall
    /\ cancelledInRun = FALSE
    /\ restarts = 0
    /\ atRestart = InactiveDoc
    /\ lastLoad = [r |-> "ok", bin |-> TRUE, at |-> now, loaded |-> DueDoc, triggered |-> TRUE]
    /\ lastSave = NoSave
    /\ lastPost = NoPost

NextRun == RunStep \/ TryPrimary \/ TryFallback

SpecRun == InitRun /\ [][NextRun]_vars

\* One iteration of the loop from the call of run_scheduled_job on: the run
\* and the post-run step.
NextCycle == RunStep \/ TryPrimary \/ TryFallback \/ PostRun

SpecCycle == InitRun /\ [][NextCycle]_vars

\* The process is stopped and started again: module globals are back at
\* their initial values (the cached bin id is empty), whatever the loop or
\* a run was doing is gone, and lifespan starts a new scheduler_loop.
\* The store and the environment are untouched.
Restart ==
    /\ restarts < MaxRestarts
    /\ restarts' = restarts + 1
    /\ atRestart' = schedDoc
    /\ binCached' = FALSE
    /\ loopPc' = "sleep"
    /\ schedule' = InactiveDoc
    /\ runPc' = "idle"
    /\ runNow' = 0
    /\ listed' = 0
    /\ videos' = << >>
    /\ vi' = 0
    /\ analyses' = << >>
    /\ valid' = << >>
    /\ si' = 0
    /\ trace' = << >>
    /\ summary' = Absent
    /\ window' = NoWindow
    /\ pace' = NoPace
    /\ EndAI
    /\ inFlight' = 0
    /\ runsStarted' = 0
    /\ postRuns' = 0
    /\ cancelledInRun' = FALSE
    /\ lastLoad' = NoLoad
    /\ lastSave' = NoSave
    /\ lastPost' = NoPost
    /\ UNCHANGED <<now, ticks, schedDoc, envBin, channel, logVars, readVars, logCalls,
                   aiRequests, scheduleCalls, runsForNextRun, lostSaves, nextRunCall, pending>>

\* A stored schedule that is active and due, with a mode get_next_run_time
\* does not know.
OtherModeDoc == [DueDoc EXCEPT !.mode = "weekly"]

\* The schedule across the life of a deployment: the loop, runs that find
\* no video or fail at the listing, the schedule routes and a restart,
\* with JSONBIN_SCHEDULE_BIN configured or not. The running process has
\* used its schedule bin before.
InitSchedule ==
    /\ schedDoc \in {InactiveDoc, DueDoc, OtherModeDoc}
    /\ channel = << >>
    /\ logs = << >>
    /\ binCached = TRUE
    /\ envBin \in BOOLEAN
    /\ nextRunCall = NoCall
    /\ InitCommon

NextSchedule ==
    \/ Tick \/ PostRun \/ SetSchedule \/ DeleteSchedule \/ Restart
    \/ RunStart \/ RunListFails \/ RunListEmpty \/ RunExcept

SpecSchedule == InitSchedule /\ [][NextSchedule]_vars

\* A stored schedule that is active, with a next_run that does not parse.
MalformedDoc == [DueDoc EXCEPT !.next_run = Malformed]

\* The loop under fair scheduling: asyncio.sleep(30) returns, every call a
\* run makes returns or times out, and the post-run step follows the run.
\* The stored schedule may be inactive, due, unschedulable or malformed.
InitLoop ==
    /\ schedDoc \in {InactiveDoc, DueDoc, OtherModeDoc, MalformedDoc}
    /\ channel = << >>
    /\ logs = << >>
    /\ binCached = TRUE
    /\ envBin \in BOOLEAN
    /\ nextRunCall = NoCall
    /\ InitCommon

RunStepNoVideo == RunStart \/ RunListFails \/ RunListEmpty \/ RunExcept

NextLoop == Tick \/ PostRun \/ SetSchedule \/ DeleteSchedule \/ Restart \/ RunStepNoVideo

SpecLoop ==
    /\ InitLoop
    /\ [][NextLoop]_vars
    /\ WF_vars(Tick)
    /\ WF_vars(RunStepNoVideo)
    /\ WF_vars(PostRun)

\* get_next_run_time on its own: one call on a schedule and at a time
\* drawn from the sets below.
\* Schedules as a store document can hold them: the three kinds of mode,
\* intervalValue and intervalUnit present or not, dailyTime present or not.
NextRunSchedules ==
    { [InactiveDoc EXCEPT !.active = TRUE, !.mode = m, !.intervalValue = v,
                          !.intervalUnit = u, !.dailyTime = d] :
        m \in {"interval", "daily", "weekly"}, v \in {Absent, 1, 3},
        u \in {"minute", "hour", "absent"},
        d \in {Absent, 0, 8 * 60, 23 * 60 + 59} }

\* Times of the call: around midnight, around 08:00 and around 23:59 of
\* day 0, and on day 1.
NextRunTimes ==
    { 0, 1, Hours(8) - 1, Hours(8), Hours(8) + 1, Hours(12) + 34567,
      Hours(23) + Minutes(59) - 1, Hours(23) + Minutes(59), DayMs - 1,
      DayMs, DayMs + Hours(8), DayMs + Hours(8) + 1 }

\* One call of get_next_run_time(schedule).
GetNextRunTime ==
    /\ ~nextRunCall.called
    /\ nextRunCall' = [nextRunCall EXCEPT !.called = TRUE,
                          !.result = get_next_run_time(nextRunCall.sch, nextRunCall.t)]
    /\ UNCHANGED <<now, channel, scheduleCalls, storeVars, logVars, readVars, logCalls,
                   loopVars, runVars, aiVars, aiRequests, inFlight, runsStarted, postRuns,
                   runsForNextRun, lostSaves, cancelledInRun, lastLoad, lastSave, lastPost,
                   restarts, atRestart, pending>>

InitNextRunTime ==
    /\ schedDoc = InactiveDoc
    /\ channel = << >>
    /\ logs = << >>
    /\ binCached = FALSE
    /\ envBin = TRUE
    /\ nextRunCall \in {[called |-> FALSE, sch |-> sch, t |-> t, result |-> None] :
                           sch \in NextRunSchedules, t \in NextRunTimes}
    /\ InitCommon

NextNextRunTime == GetNextRunTime

SpecNextRunTime == InitNextRunTime /\ [][NextNextRunTime]_vars

\* ----------------------------------------------------------------- claims
\* The ids of the run's events of kind e, in the order they happened.
EventIds(e) ==
    LET sel == SelectSeq(trace, LAMBDA x : x[1] = e)
    IN  [k \in 1..Len(sel) |-> sel[k][2]]

Happened(e, id) == \E k \in 1..Len(trace) : trace[k] = <<e, id>>

\* The place of id in the sequence seq of distinct ids (0 if it is not there).
PlaceIn(seq, id) == IF \E k \in 1..Len(seq) : seq[k] = id
                    THEN CHOOSE k \in 1..Len(seq) : seq[k] = id
                    ELSE 0

\* seq without id.
Without(seq, id) == SelectSeq(seq, LAMBDA x : x # id)

C2_CancelDuringRunSticks ==
    (cancelledInRun /\ loopPc = "sleep") => ~schedDoc.active

RateLimitedTimes(k) == [i \in 1..k |-> "rate_limited"]

\* C3: after one or two 429 answers the primary is tried again and the
\* fallback has not been called; 429, 429, 200 ends the call with the
\* primary's text and no fallback call; 429, 429, 429 ends the primary's
\* attempts and the fallback is called exactly once.
C3_RetryThenFallback ==
    /\ responses \in {RateLimitedTimes(1), RateLimitedTimes(2)} =>
          (aiPc = "TryPrimary" /\ fallbackCalls = 0)
    /\ (/\ Len(responses) = 3
        /\ SubSeq(responses, 1, 2) = RateLimitedTimes(2)
        /\ responses[3] \in {"ok_text", "ok_empty"}) =>
          (aiPc = "Done" /\ fallbackCalls = 0 /\ primaryCalls = 3)
    /\ responses = RateLimitedTimes(3) =>
          /\ aiPc \in {"TryFallback", "Done", "Failed"}
          /\ primaryCalls = 3
          /\ fallbackCalls = (IF aiPc = "TryFallback" THEN 0 ELSE 1)

\* Three 429 answers, then the one fallback call, which failed.
C3_Witness ==
    /\ responses = RateLimitedTimes(3)
    /\ aiPc = "Failed"
    /\ fallbackCalls = 1

GenericFailures == {"parse_error", "error", "transport"}

\* C4: a primary answer that is a failure other than 429 is the last primary
\* answer of the call, no backoff follows it (the only backoffs are those of
\* the 429 answers before it), and the call is at or past its one fallback.
C4_GenericFailureFallsBack ==
    \A i \in 1..Len(responses) :
        responses[i] \in GenericFailures =>
            /\ i = Len(responses)
            /\ primaryCalls = i
            /\ Len(delays) = i - 1
            /\ aiPc \in {"TryFallback", "Done", "Failed"}
            /\ fallbackCalls = (IF aiPc = "TryFallback" THEN 0 ELSE 1)

\* A 429 (with its 10 s backoff), then an error, then the fallback's text.
C4_Witness ==
    /\ responses = <<"rate_limited", "error">>
    /\ delays = <<10>>
    /\ aiPc = "Done"
    /\ fallbackCalls = 1

\* C5: when the run has returned, for every item whose analysis failed
\* (primary and fallback), every later candidate had its transcript fetched
\* and every analysis with a text was dispatched.
C5_AiFailureSkipsOnlyItem ==
    runPc = "returned" =>
        \A id \in Ids(EventIds("ai_failed")) :
            /\ \A k \in 1..Len(videos) :
                   k > PlaceIn(videos, id) => Happened("fetch", videos[k])
            /\ \A k \in 1..Len(analyses) :
                   analyses[k][2] # "" =>
                       (Happened("sent", analyses[k][1]) \/ Happened("send_failed", analyses[k][1]))

\* C6: when the run has returned, for every item whose send failed, every
\* later item of valid was sent too (or its send was at least attempted).
C6_SendFailureDoesNotStop ==
    runPc = "returned" =>
        \A id \in Ids(EventIds("send_failed")) :
            \A k \in 1..Len(valid) :
                (\E j \in 1..(k - 1) : valid[j][1] = id) =>
                    (Happened("sent", valid[k][1]) \/ Happened("send_failed", valid[k][1]))

\* The filtered candidates the transcript provider has nothing for.
NoTranscript == {id \in Ids(FilterEarnings(channel)) : ~channel[id].transcript}

\* Nothing but missing transcripts went wrong in the run: the listing, every
\* analysis (with a text) and every send succeeded.
OnlyTranscriptsMissing ==
    /\ \A k \in 1..Len(trace) : trace[k][1] \notin {"list_failed", "ai_failed", "send_failed"}
    /\ \A k \in 1..Len(analyses) : analyses[k][2] # ""

\* C7: a run that has returned, with exactly one candidate without a
\* transcript and nothing else failing, attempted no analysis of that
\* candidate, sent the others in discovery order, and reports their number.
C7_OneMissingTranscript ==
    (/\ runPc = "returned"
     /\ Cardinality(NoTranscript) = 1
     /\ OnlyTranscriptsMissing) =>
        LET e == CHOOSE id \in NoTranscript : TRUE
        IN  /\ ~Happened("analyze", e)
            /\ EventIds("analyze") = Without(FilterEarnings(channel), e)
            /\ EventIds("sent") = Without(FilterEarnings(channel), e)
            /\ summary = Len(FilterEarnings(channel)) - 1

\* Three candidates, the first without a transcript, the other two sent.
C7_Witness ==
    /\ runPc = "returned"
    /\ Len(FilterEarnings(channel)) = 3
    /\ NoTranscript = {1}
    /\ OnlyTranscriptsMissing
    /\ EventIds("sent") = <<2, 3>>
    /\ summary = 2

TerminalEntries == {"pipeline_complete", "no_videos", "job_error"}

\* C8: no exception leaves run_scheduled_job, and when it has returned its
\* latest append_activity call was for a terminal entry.
C8_RunNeverRaises ==
    /\ runPc # "raised"
    /\ runPc = "returned" => (lastAttempt \in TerminalEntries /\ inFlight = 0)

\* A run whose send failed and whose terminal entry was lost with the store.
C8_Witness ==
    /\ runPc = "returned"
    /\ EventIds("send_failed") # << >>
    /\ lastAttempt = "job_error"
    /\ logFaults = 1
    /\ (logs = << >> \/ logs[Len(logs)].msg # "job_error")

\* C9: the stored log holds at most MAX_LOG_ENTRIES entries, and once more
\* than that have been appended it holds exactly the newest MAX_LOG_ENTRIES
\* of them, in append order.
C9_NewestKept ==
    /\ Len(logs) <= MAX_LOG_ENTRIES
    /\ Len(appended) > MAX_LOG_ENTRIES => logs = Newest(appended, MAX_LOG_ENTRIES)

\* C10: a get_activity_log(limit) whose read succeeded returned the newest
\* min(limit, length) entries of the stored log, oldest first.
C10_ReadNewest ==
    (lastLimit # Absent /\ lastReadOk) =>
        lastRead = Newest(lastStored, Min(lastLimit, Len(lastStored)))

\* The instant dailyTime falls on, on the day the call is made.
DailyToday(call) == (call.t \div DayMs) * DayMs + Minutes(DailyMinutes(call.sch))

C12_IntervalNextRun ==
    (/\ nextRunCall.called
     /\ nextRunCall.sch.mode = "interval"
     /\ nextRunCall.sch.intervalValue # Absent
     /\ nextRunCall.sch.intervalUnit \in {"minute", "hour"}) =>
        LET v == nextRunCall.sch.intervalValue
            unitMs == IF nextRunCall.sch.intervalUnit = "minute" THEN 60000 ELSE 3600000
        IN  nextRunCall.result = nextRunCall.t + v * unitMs

\* Three minutes from a time with a sub-second part: nothing is rounded.
C12_Witness ==
    /\ nextRunCall.called
    /\ nextRunCall.sch.mode = "interval"
    /\ nextRunCall.sch.intervalValue = 3
    /\ nextRunCall.sch.intervalUnit = "minute"
    /\ nextRunCall.t = Hours(12) + 34567
    /\ nextRunCall.result = Hours(12) + 34567 + 180000

\* C13: for an active interval schedule (every minute), one due check that
\* triggers a run raises the persisted run_count by exactly 1 and sets the
\* persisted next_run to the run's start time plus one minute, whatever
\* the run's duration. (Checked where the post-run write reached the
\* store, next_run as the timestamp string of that instant.)
C13_NextRunFromStart ==
    (lastPost.done /\ lastPost.reached /\ lastPost.loaded.mode = "interval") =>
        /\ lastPost.after.run_count = lastPost.before.run_count + 1
        /\ lastPost.after.next_run = to_utc_iso(lastPost.started + Minutes(1))

\* C14: a run that aborts on a stage-level failure (the listing call fails,
\* or any other exception reaches the run's handler) still returns to the
\* loop, which recomputes next_run from the current time and calls
\* save_schedule with it: the saved schedule is active and due one
\* interval later, and it is the stored document whenever the write reaches
\* the store.
C14_AbortStillReschedules ==
    (lastPost.done /\ lastPost.aborted) =>
        /\ lastPost.called
        /\ lastPost.data.active
        /\ lastPost.data.next_run = to_utc_iso(lastPost.ended + Minutes(1))
        /\ lastPost.data.next_run > lastPost.loaded.next_run
        /\ lastPost.reached => (lastPost.after = lastPost.data /\ schedDoc = lastPost.data)

\* An aborted run whose post-run save reached the store.
C14_Witness ==
    /\ lastPost.done
    /\ lastPost.aborted
    /\ lastPost.reached
    /\ loopPc = "sleep"
    /\ schedDoc.active
    /\ schedDoc.next_run > now

\* C15: load_schedule never raises. When the store holds no schedule bin
\* for the process, is unreachable, or answers with an error or an empty
\* document, it returns a schedule with active = false, and the loop
\* triggers no run on that tick and goes on polling.
C15_LoadFailureIsInactive ==
    /\ lastLoad.r \notin {"none", "ok"} =>
           /\ lastLoad.loaded = InactiveDoc
           /\ ~lastLoad.triggered
           /\ loopPc = "sleep"
           /\ runPc = "idle"
           /\ inFlight = 0
    /\ (lastLoad.r # "none" /\ ~lastLoad.loaded.active) =>
           (~lastLoad.triggered /\ loopPc = "sleep")

\* The store holds an active, due schedule, the read raises: no run.
C15_Witness ==
    /\ lastLoad.r = "exc"
    /\ lastLoad.bin
    /\ schedDoc.active
    /\ lastLoad.at >= schedDoc.next_run
    /\ ~lastLoad.triggered
    /\ loopPc = "sleep"
    /\ ticks < MaxTicks

\* C16: the schedule survives a restart. If an active schedule was stored
\* when the process restarted, the first load_schedule of the new process
\* whose store calls succeed returns that schedule, and the loop triggers
\* a run exactly when the time of the tick has reached its next_run.
C16_ScheduleSurvivesRestart ==
    (/\ restarts > 0
     /\ atRestart.active
     /\ lastSave = NoSave
     /\ postRuns = 0
     /\ lastLoad.r = "ok") =>
        /\ lastLoad.loaded = atRestart
        /\ lastLoad.triggered = (lastLoad.at >= atRestart.next_run)

\* C17: DELETE /api/schedule sets active = false and leaves every other
\* field of the persisted schedule as it was.
C17_CancelKeepsFields ==
    lastSave.by = "delete" => lastSave.data = [lastSave.before EXCEPT !.active = FALSE]

\* C18: in every state of the persisted schedule reachable through
\* set_schedule, delete_schedule and the loop's post-run save, active = true
\* implies that next_run holds a timestamp.
C18_ActiveHasNextRun ==
    /\ schedDoc.active => (schedDoc.next_run # Absent /\ schedDoc.next_run = to_utc_iso(schedDoc.next_run))
    /\ (lastSave.by # "none" /\ lastSave.data.active) => lastSave.data.next_run # Absent
    /\ (lastPost.called /\ lastPost.data.active) => lastPost.data.next_run # Absent

\* An active schedule written by POST /api/schedule, and one written by the
\* loop after a run.
C18_Witness ==
    /\ lastSave.by = "set"
    /\ lastPost.reached
    /\ schedDoc.active
    /\ schedDoc.run_count = 1
    /\ schedDoc.next_run > now

\* C19: for a stored active, due schedule whose mode is neither interval
\* nor daily, the loop runs the pipeline once for that due time and does
\* not trigger it again on later ticks.
C19_NoRerunWithoutNextRun ==
    (schedDoc = OtherModeDoc /\ scheduleCalls = 0 /\ restarts = 0) => runsStarted <= 1

\* C20: between two schedule replacements the persisted run_count equals
\* the number of runs the loop has completed for that schedule, whatever
\* the store-write outcomes. (Checked between iterations of the loop, for
\* a schedule no route has replaced.)
C20_RunCountCountsRuns ==
    (/\ scheduleCalls = 0
     /\ restarts = 0
     /\ schedDoc.active
     /\ schedDoc.mode = "interval"
     /\ loopPc = "sleep") => schedDoc.run_count = postRuns

\* The 429 answers among the primary's answers of the current call.
RateLimitedCount == Cardinality({k \in 1..Len(responses) : responses[k] = "rate_limited"})

\* C21: whatever the primary and the fallback answer, one analyze_with_ai
\* call makes at most 3 primary requests and at most 1 fallback request;
\* the k-th rate-limited attempt is followed by a backoff of 10 * k
\* seconds (10, 20, 30); the call ends with a result (Done) or with a
\* failure that is raised only after the fallback has failed (Failed),
\* and until then it always has a next step, of which it takes at most 4.
C21_BoundedAnalysis ==
    /\ primaryCalls <= 3
    /\ fallbackCalls <= 1
    /\ Len(delays) = RateLimitedCount
    /\ Len(delays) <= 3
    /\ \A k \in 1..Len(delays) : delays[k] = 10 * k
    /\ aiPc \in {"idle", "TryPrimary", "TryFallback", "Done", "Failed"}
    /\ aiPc = "Failed" => fallbackCalls = 1
    /\ aiPc = "Done" => aiResult # "none"
    /\ aiPc = "TryPrimary" => (primaryCalls < 3 /\ fallbackCalls = 0 /\ ENABLED TryPrimary)
    /\ aiPc = "TryFallback" => (fallbackCalls = 0 /\ ENABLED TryFallback)

\* Three rate-limited attempts with backoffs of 10, 20 and 30 s, then the
\* fallback, whose failure ends the call.
C21_Witness ==
    /\ primaryCalls = 3
    /\ delays = <<10, 20, 30>>
    /\ fallbackCalls = 1
    /\ aiPc = "Failed"
    /\ aiResult = "none"

\* C22: within one run, an analysis call that follows another one starts at
\* least the pacing delay (5 s) after the earlier one returned, whichever
\* items in between were skipped for a missing transcript; a dispatch that
\* follows another one is made at least the dispatch delay (0.6 s) after it.
C22_PacingBetweenCalls ==
    /\ pace.prevAiEnd # Absent => pace.aiStart - pace.prevAiEnd >= 5000
    /\ pace.prevSendAt # Absent => pace.sendAt - pace.prevSendAt >= 600

\* Three candidates, the second without a transcript: the first and the
\* third were analyzed one after the other, then both were dispatched.
C22_Witness ==
    /\ Happened("analyzed", 1)
    /\ Happened("empty", 2)
    /\ Happened("analyzed", 3)
    /\ pace.prevAiEnd # Absent
    /\ pace.aiStart = pace.prevAiEnd + 5000
    /\ pace.prevSendAt # Absent
    /\ pace.sendAt = pace.prevSendAt + 600

\* C23: the discovery window of a run is exactly the 24 hours ending when
\* the run starts: the publication times asked of the listing go from
\* t - 24 h to t, t being the run's start time.
C23_WindowIsLast24h ==
    window # NoWindow =>
        /\ published_after(window.from_date) = runNow - DayMs
        /\ published_before(window.to_date) = runNow

\* C24: the scheduler loop never ends and never stalls. Whatever a tick
\* meets (a store failure, a failed run, a malformed or unschedulable
\* schedule) the loop is sleeping or awaiting its run, and under fair
\* scheduling it always reaches its next tick; a tick that reads an active
\* schedule whose next_run has come triggers a run.
C24_LoopKeepsGoing ==
    /\ [](loopPc \in {"sleep", "running"})
    /\ []((/\ lastLoad.r = "ok"
           /\ lastLoad.loaded.active
           /\ lastLoad.loaded.next_run \notin {Absent, Malformed}
           /\ lastLoad.at >= lastLoad.loaded.next_run) => lastLoad.triggered)
    /\ \A k \in 0..(MaxTicks - 1) : (ticks = k) ~> (ticks = k + 1)

\* The first tick could not read the store, the second one read the due
\* schedule and triggered its run.
C24_Witness ==
    /\ ticks = 2
    /\ restarts = 0
    /\ scheduleCalls = 0
    /\ schedDoc = DueDoc
    /\ lastLoad.triggered
    /\ runsStarted = 1
    /\ postRuns = 0
    /\ loopPc = "running"

\* C25: clear_activity_log and append_activity are atomic with respect to
\* each other: the stored log is the result of some sequential order of
\* the two, so every stored entry was appended since the last clear that
\* completed, and no entry from before that clear is in the log again.
C25_ClearAppendAtomic ==
    \A i \in 1..Len(logs) : \E j \in 1..Len(appended) : appended[j] = logs[i]

====
